---------------------------- MODULE Spec2Model ----------------------------
(***************************************************************************)
(* Model of training/train_facial_analysis_model.py: the dataset merge     *)
(* (FacialAnalysisDataset.__init__), the stratified splitter               *)
(* (stratified_train_test_split), the trainer (train_model) and the        *)
(* script's main().                                                        *)
(*                                                                         *)
(* A DataFrame is a sequence of rows; a row is a record whose fields are   *)
(* the columns the code reads, plus "index", the row's index label.  CSV   *)
(* cells are strings; the empty cell "" is what pandas reads as NaN.       *)
(* A Python float is a record [inf, v]: a non-negative integer v, or +inf. *)
(* The cells and tensor entries of the feature encoder are records         *)
(* [nan, num, den]: NaN, or the fraction num/den.  The tensors of the      *)
(* batches that train_model draws are not kept: ForwardOutcomes stands for *)
(* what a forward pass makes of them.                                      *)
(***************************************************************************)
EXTENDS Integers, Sequences, FiniteSets, TLC

VARIABLES
    pc,                 \* position in main() / train_model()
    PYTORCH_AVAILABLE,  \* module flag, set by the import at line 47-53
    COREML_AVAILABLE,   \* module flag, set by the import at line 55-60
    num_epochs,         \* args.epochs
    disk,               \* the files the script reads and writes
    metadata_df, arkit_df, labels_df,   \* the three loaded tables
    data,               \* FacialAnalysisDataset.data, the merged table
    train_indices, val_indices,         \* result of the splitter
    permutation42,      \* RandomState(42).permutation(n), per n drawn so far
    trainer,            \* locals of train_model
    history,            \* train_model's history dictionary
    model,              \* the model's parameters (and where they came from)
    stdout,             \* the messages printed so far
    raised,             \* the exception that ended the run, or "none"
    item                \* what dataset[idx] last returned to a direct caller

vars == <<pc, PYTORCH_AVAILABLE, COREML_AVAILABLE, num_epochs, disk,
          metadata_df, arkit_df, labels_df, data, train_indices, val_indices,
          permutation42, trainer, history, model, stdout, raised, item>>

-----------------------------------------------------------------------------
(* Bounds of the model *)

\* rows of a merged table handed to the splitter on its own
MaxRows == 5
\* rows of a merged table handed to the splitter and then the trainer
MaxTrainRows == 2
\* epochs of a training run
MaxEpochs == 3
\* rows of each CSV file (of each input table of the merge)
MaxCsvRows == 2
\* epochs of a whole run of main()
MaxMainEpochs == 1
\* rows a merged table of a whole run of main() may have
MaxMerged == 2

\* rows of a merged table whose training loader has several batches
MaxBatchRows == 4
\* epochs of a training run over such loaders
MaxBatchEpochs == 1
\* optional columns that the three CSV files of an encoded dataset may lack
MaxAbsentColumns == 1
\* empty cells in the optional columns of an encoded dataset
MaxEmptyCells == 1

\* --batch_size (the rows of one batch)
batch_size == 2

\* test_size = 0.2, in percent
TestSizePercent == 20

\* the image identifiers of the input tables
ImageIds == {1, 2}

NaN == ""

\* (ethnicity, gender, skin_tone) of a metadata row; the third has no ethnicity
Keys == { <<"asian", "male", "3">>, <<"asian", "female", "3">>, <<NaN, "male", "3">> }

\* the order in which pandas sorts the group keys (tuples compare column by column)
SortedKeys == << <<"asian", "female", "3">>, <<"asian", "male", "3">> >>

\* the keys of the metadata rows of a whole run of main()
MainKeys == { <<"asian", "male", "3">> }

-----------------------------------------------------------------------------
(* Sequences *)

Range(s) == { s[i] : i \in DOMAIN s }

SeqsUpTo(S, n) == UNION { [1..k -> S] : k \in 0..n }

Min2(a, b) == IF a <= b THEN a ELSE b

\* the orderings of the set S, as sequences
RECURSIVE PermsOf(_)
PermsOf(S) ==
    IF S = {} THEN { << >> }
    ELSE UNION { { <<x>> \o p : p \in PermsOf(S \ {x}) } : x \in S }

\* the permutations of 0..n-1, as sequences of length n
Permutations0(n) == PermsOf(0..(n - 1))

\* the ways to fix one permutation of 0..n-1 for every n of the set S
RECURSIVE PermutationTables(_)
PermutationTables(S) ==
    IF S = {} THEN { << >> }
    ELSE LET n == CHOOSE n \in S : TRUE
         IN  { (n :> p) @@ t : p \in Permutations0(n), t \in PermutationTables(S \ {n}) }

-----------------------------------------------------------------------------
(* pandas: read_csv, merge, reset_index, groupby *)

MetadataRowsOf(K) ==
    { [image_id |-> i, ethnicity |-> k[1], gender |-> k[2], skin_tone |-> k[3]] :
      i \in ImageIds, k \in K }

MetadataRows == MetadataRowsOf(Keys)

IdRows == { [image_id |-> i] : i \in ImageIds }

\* a table as read_csv returns it: the rows get the index labels 0..n-1
WithRangeIndex(rows) ==
    [i \in 1..Len(rows) |-> [index |-> i - 1] @@ rows[i]]

\* the rows of right whose image_id is that of the left row l, each joined to l
JoinOne(l, right) ==
    LET m == SelectSeq(right, LAMBDA r : r.image_id = l.image_id)
    IN  [j \in 1..Len(m) |-> l @@ m[j]]

RECURSIVE JoinFrom(_, _, _)
JoinFrom(left, right, i) ==
    IF i > Len(left) THEN << >>
    ELSE JoinOne(left[i], right) \o JoinFrom(left, right, i + 1)

\* ResetIndex if the rows kept the index labels they had before the join
KeepIndex(df) == df

\* reset_index(drop=True)
ResetIndex(df) ==
    [i \in 1..Len(df) |-> [df[i] EXCEPT !.index = i - 1]]

\* left.merge(right, on='image_id', how='inner'): every pair of a left and a
\* right row with the same image_id, in the order of the left rows; the result
\* has a fresh index 0..n-1
InnerMerge(left, right) == ResetIndex(JoinFrom(left, right, 1))

\* FacialAnalysisDataset.__init__, lines 296-301
MergedData(m, a, l) == ResetIndex(InnerMerge(InnerMerge(m, a), l))

KeyOf(row) == <<row.ethnicity, row.gender, row.skin_tone>>

HasNaN(key) == \E c \in 1..Len(key) : key[c] = NaN

\* data.groupby(demographics): the groups are the key tuples of the rows none of
\* whose key cells is NaN (dropna=True is groupby's default), in sorted order;
\* a group is the index labels of its rows, in row order
GroupIndex(df, key) ==
    LET g == SelectSeq(df, LAMBDA r : KeyOf(r) = key)
    IN  [i \in 1..Len(g) |-> g[i].index]

GroupKeys(df) ==
    SelectSeq(SortedKeys, LAMBDA k : \E i \in 1..Len(df) : KeyOf(df[i]) = k)

-----------------------------------------------------------------------------
(* sklearn.model_selection.train_test_split and the stratified splitter *)

\* NTest as int(test_size * n) would compute it
NTestTruncated(n) == (TestSizePercent * n) \div 100

\* ceil(test_size * n): the float product 0.2 * n rounds up to this for the n
\* of this model
NTest(n) == (TestSizePercent * n + 99) \div 100

\* train_test_split(L, test_size=0.2, random_state=42): the first n_test
\* entries of the seeded permutation of 0..n-1 index the test part, the rest
\* the train part; an empty train part is a ValueError
TrainTestSplit(L, perm) ==
    LET n       == Len(L)
        n_test  == NTest(n)
        n_train == n - n_test
    IN  [ok    |-> n_train > 0,
         train |-> [i \in 1..n_train |-> L[perm[n_test + i] + 1]],
         test  |-> [i \in 1..n_test |-> L[perm[i] + 1]]]

\* TooSmall with the bound of line 219 off by one
TooSmallBelowOne(n) == n < 1

\* whether a group goes whole into the training list (line 219)
TooSmall(n) == n < 2

\* the loop of lines 218-230 over the groups keys[i..], starting from acc
RECURSIVE SplitGroups(_, _, _, _, _)
SplitGroups(df, keys, i, perms, acc) ==
    IF i > Len(keys) \/ ~acc.ok THEN acc
    ELSE LET g == GroupIndex(df, keys[i])
         IN  IF TooSmall(Len(g))
             THEN SplitGroups(df, keys, i + 1, perms,
                              [acc EXCEPT !.train = @ \o g])
             ELSE LET s == TrainTestSplit(g, perms[Len(g)])
                  IN  SplitGroups(df, keys, i + 1, perms,
                                  [ok    |-> s.ok,
                                   train |-> IF s.ok THEN acc.train \o s.train ELSE acc.train,
                                   val   |-> IF s.ok THEN acc.val \o s.test ELSE acc.val])

\* stratified_train_test_split(data, ['ethnicity', 'gender', 'skin_tone'], 0.2)
stratified_train_test_split(df, perms) ==
    SplitGroups(df, GroupKeys(df), 1, perms, [ok |-> TRUE, train |-> << >>, val |-> << >>])

\* the sizes of the groups that train_test_split is called on
SplitSizes(df) ==
    { Len(GroupIndex(df, k)) : k \in Range(GroupKeys(df)) } \ { n \in 0..Len(df) : TooSmall(n) }

-----------------------------------------------------------------------------
(* Python floats: a non-negative value or +inf *)

F(n) == [inf |-> FALSE, v |-> n]

Inf == [inf |-> TRUE, v |-> 0]

FAdd(a, b) == IF a.inf \/ b.inf THEN Inf ELSE F(a.v + b.v)

FLess(a, b) == ~a.inf /\ (b.inf \/ a.v < b.v)

RECURSIVE FSum(_)
FSum(s) == IF s = << >> THEN F(0) ELSE FAdd(Head(s), FSum(Tail(s)))

\* what one forward pass over a batch gives: the batch's total_loss, the absolute
\* angle error of each of its rows, and whether their category is predicted right
ForwardOutcomes ==
    { [loss |-> F(1), angle_err |-> F(0), hit |-> TRUE],
      [loss |-> F(2), angle_err |-> F(1), hit |-> FALSE],
      [loss |-> Inf,  angle_err |-> Inf,  hit |-> FALSE] }

-----------------------------------------------------------------------------
(* FacialAnalysisDataset: _encode_categorical and __getitem__ *)

\* a float cell or tensor entry: the fraction n/d, or NaN
Ratio(n, d) == [nan |-> FALSE, num |-> n, den |-> d]

Num(n) == Ratio(n, 1)

NaNFloat == [nan |-> TRUE, num |-> 0, den |-> 1]

\* (x - lo) / span in float arithmetic: NaN stays NaN
Normalize(x, lo, span) ==
    IF x.nan THEN NaNFloat ELSE Ratio(x.num - lo * x.den, span * x.den)

gender_map == [male |-> Num(0), female |-> Num(1), other |-> Ratio(5, 10)]

ethnicity_map ==
    [african_american |-> Num(0), asian |-> Ratio(125, 1000), caucasian |-> Ratio(25, 100),
     hispanic |-> Ratio(375, 1000), middle_eastern |-> Ratio(5, 10),
     native_american |-> Ratio(625, 1000), pacific_islander |-> Ratio(75, 100),
     mixed |-> Ratio(875, 1000), other |-> Ratio(9375, 10000),
     prefer_not_to_say |-> Ratio(5, 10)]

context_map == [baseline |-> Num(0), progress |-> Ratio(5, 10), followup |-> Num(1)]

category_map == [low |-> Num(0), moderate |-> Num(1), high |-> Num(2)]

\* column.map(map).fillna(default) on one cell: a cell that is no key of the
\* map (NaN included) becomes NaN and then the default
MapFillna(map, cell, default) == IF cell \in DOMAIN map THEN map[cell] ELSE default

\* _encode_categorical on a row (lines 315-336)
EncodedRow(row) ==
    [gender_encoded    |-> MapFillna(gender_map, row.gender, Ratio(5, 10)),
     ethnicity_encoded |-> MapFillna(ethnicity_map, row.ethnicity, Ratio(5, 10)),
     context_encoded   |-> MapFillna(context_map, row.context, Num(0)),
     category_encoded  |-> MapFillna(category_map, row.true_category, Num(1))] @@ row

EncodeCategorical(df) == [i \in 1..Len(df) |-> EncodedRow(df[i])]

\* data.iloc[idx]: the row at position idx, counted from 0 (line 342)
Iloc(df, idx) == df[idx + 1]

\* row.get(col, default): the default only when the row has no such column;
\* the cell, NaN included, when it has
RowGet(row, col, default) == IF col \in DOMAIN row THEN row[col] ELSE default

\* __getitem__ (lines 341-404) without the image: the metadata vector, the
\* measurement vector and the two targets of the row at position idx
GetItemOf(df, idx) ==
    LET row         == Iloc(df, idx)
        age         == RowGet(row, "age", Num(30))
        gender      == RowGet(row, "gender_encoded", Ratio(5, 10))
        bmi         == RowGet(row, "bmi", Num(22))
        ethnicity   == RowGet(row, "ethnicity_encoded", Ratio(5, 10))
        skin_tone   == RowGet(row, "skin_tone", Num(3))
        context     == RowGet(row, "context_encoded", Num(0))
        angle       == RowGet(row, "cervico_mental_angle", Num(100))
        length      == RowGet(row, "submental_cervical_length", Num(40))
        jaw_idx     == RowGet(row, "jaw_definition_index", Ratio(65, 100))
        neck        == RowGet(row, "neck_circumference", Num(380))
        adiposity   == RowGet(row, "facial_adiposity_index", Num(35))
        face_width  == RowGet(row, "face_width", Num(145))
        face_height == RowGet(row, "face_height", Num(210))
        pitch       == RowGet(row, "head_pose_pitch", Num(0))
        yaw         == RowGet(row, "head_pose_yaw", Num(0))
        roll        == RowGet(row, "head_pose_roll", Num(0))
    IN  [idx |-> idx,
         metadata |-> << Normalize(age, 18, 62), gender, Normalize(bmi, 15, 25),
                         ethnicity, Normalize(skin_tone, 1, 5), context >>,
         arkit_features |-> << Normalize(angle, 70, 80), Normalize(length, 15, 45),
                               jaw_idx, Normalize(neck, 300, 200),
                               Normalize(adiposity, 0, 100),
                               Normalize(face_width, 120, 60),
                               Normalize(face_height, 180, 70),
                               Normalize(pitch, 0, 30), Normalize(yaw, 0, 30),
                               Normalize(roll, 0, 30) >>,
         angle_target |-> RowGet(row, "true_angle", Num(100)),
         category_target |-> RowGet(row, "category_encoded", Num(1))]

\* no item fetched yet
NoItem ==
    [idx |-> -1, metadata |-> << >>, arkit_features |-> << >>,
     angle_target |-> Num(0), category_target |-> Num(0)]

-----------------------------------------------------------------------------
(* The state of a run *)

NoFile == [exists |-> FALSE, rows |-> << >>]

CsvFile(rows) == [exists |-> TRUE, rows |-> rows]

NoStateDict == [exists |-> FALSE, steps |-> 0, run |-> "none"]

\* a best_model.pth that an earlier run left in the working directory
EarlierCheckpoint == [exists |-> TRUE, steps |-> 0, run |-> "earlier"]

\* a freshly built FacialAnalysisModel(): no optimizer step applied yet
FreshModel == [steps |-> 0, run |-> "this"]

EmptyHistory ==
    [train_loss |-> << >>, val_loss |-> << >>,
     train_angle_mae |-> << >>, val_angle_mae |-> << >>,
     train_category_acc |-> << >>, val_category_acc |-> << >>]

NoHistoryFile == [exists |-> FALSE, content |-> EmptyHistory]

\* the locals of train_model as lines 476-484 and 521-526 set them
TrainerStart ==
    [epoch |-> 0, batch |-> 0, best_val_loss |-> Inf, saved |-> << >>,
     train_loss |-> F(0), train_angle_errors |-> << >>,
     train_category_correct |-> 0, train_category_total |-> 0,
     val_loss |-> F(0), val_angle_errors |-> << >>,
     val_category_correct |-> 0, val_category_total |-> 0]

Disk(m, a, l, dir, ckpt) ==
    [metadata_csv |-> m, arkit_features_csv |-> a, labels_csv |-> l,
     output_dir |-> dir, best_model_pth |-> ckpt,
     training_history_json |-> NoHistoryFile,
     model_info_json |-> FALSE,
     mlmodelc |-> NoStateDict]

\* len(DataLoader(Subset(dataset, indices), batch_size)): ceil(n / batch_size)
LoaderLen(indices) == (Len(indices) + batch_size - 1) \div batch_size

\* the number of rows of batch number b (from 0) of such a loader
BatchRows(indices, b) == Min2(batch_size, Len(indices) - b * batch_size)

-----------------------------------------------------------------------------
(* Initial states *)

CsvContents(Rows) == { NoFile } \cup { CsvFile(r) : r \in SeqsUpTo(Rows, MaxCsvRows) }

\* the elements of a set of numbers in ascending order
RECURSIVE Ascending(_)
Ascending(S) ==
    IF S = {} THEN << >>
    ELSE LET x == CHOOSE x \in S : \A y \in S : x <= y
         IN  <<x>> \o Ascending(S \ {x})

\* a CSV file that is absent, or has one row for each image of some set
OneRowPerImage ==
    { NoFile } \cup { CsvFile([i \in 1..Cardinality(S) |-> [image_id |-> Ascending(S)[i]]]) :
                      S \in SUBSET ImageIds }

NothingLoaded ==
    /\ metadata_df = << >> /\ arkit_df = << >> /\ labels_df = << >>
    /\ data = << >>

NothingComputed ==
    /\ train_indices = << >> /\ val_indices = << >>
    /\ permutation42 = << >>
    /\ trainer = TrainerStart
    /\ history = EmptyHistory
    /\ model = FreshModel
    /\ stdout = {}
    /\ raised = "none"
    /\ item = NoItem

\* main() is entered: any flags, an output directory that exists or not, possibly
\* a best_model.pth of an earlier run in the working directory, and a data
\* directory whose metadata.csv may repeat an image and whose other two files
\* have one row per image
Init ==
    /\ pc = "check_deps"
    /\ PYTORCH_AVAILABLE \in BOOLEAN
    /\ COREML_AVAILABLE \in BOOLEAN
    /\ num_epochs \in 0..MaxMainEpochs
    /\ \E m \in CsvContents(MetadataRowsOf(MainKeys)), a \in OneRowPerImage,
          l \in OneRowPerImage,
          dir \in {"absent", "exists"}, ckpt \in {NoStateDict, EarlierCheckpoint} :
          /\ Len(MergedData(WithRangeIndex(m.rows), WithRangeIndex(a.rows),
                            WithRangeIndex(l.rows))) <= MaxMerged
          /\ disk = Disk(m, a, l, dir, ckpt)
    /\ NothingLoaded
    /\ NothingComputed

\* FacialAnalysisDataset is about to be built from three loaded tables
InitMerge ==
    /\ pc = "create_dataset"
    /\ PYTORCH_AVAILABLE = TRUE
    /\ COREML_AVAILABLE = TRUE
    /\ num_epochs = 0
    /\ \E m \in SeqsUpTo(MetadataRows, MaxCsvRows), a \in SeqsUpTo(IdRows, MaxCsvRows),
          l \in SeqsUpTo(IdRows, MaxCsvRows) :
          /\ disk = Disk(CsvFile(m), CsvFile(a), CsvFile(l), "exists", NoStateDict)
          /\ metadata_df = WithRangeIndex(m)
          /\ arkit_df = WithRangeIndex(a)
          /\ labels_df = WithRangeIndex(l)
    /\ data = << >>
    /\ NothingComputed

\* the three tables of n samples with the identifiers 1..n and the given keys
SampleTables(keys) ==
    [m |-> [i \in 1..Len(keys) |->
               [image_id |-> i, ethnicity |-> keys[i][1], gender |-> keys[i][2],
                skin_tone |-> keys[i][3]]],
     a |-> [i \in 1..Len(keys) |-> [image_id |-> i]],
     l |-> [i \in 1..Len(keys) |-> [image_id |-> i]]]

\* the dataset of up to n samples has been built; the splitter is about to run
SplitterEntered(n, epochs) ==
    /\ pc = "split"
    /\ PYTORCH_AVAILABLE = TRUE
    /\ COREML_AVAILABLE = TRUE
    /\ num_epochs \in epochs
    /\ \E keys \in SeqsUpTo(Keys, n) :
          LET t == SampleTables(keys)
          IN  /\ disk = Disk(CsvFile(t.m), CsvFile(t.a), CsvFile(t.l), "exists", NoStateDict)
              /\ metadata_df = WithRangeIndex(t.m)
              /\ arkit_df = WithRangeIndex(t.a)
              /\ labels_df = WithRangeIndex(t.l)
              /\ data = MergedData(WithRangeIndex(t.m), WithRangeIndex(t.a),
                                   WithRangeIndex(t.l))
    /\ NothingComputed

InitSplit == SplitterEntered(MaxRows, {0})

\* the subsets of S of at most k elements
RECURSIVE SubsetsUpTo(_, _)
SubsetsUpTo(S, k) ==
    IF k = 0 THEN { {} }
    ELSE LET smaller == SubsetsUpTo(S, k - 1)
         IN  smaller \cup { s \cup {x} : s \in smaller, x \in S }

\* the optional numeric columns that __getitem__ reads with row.get, by file
OptionalMetadataColumns == {"age", "bmi", "skin_tone"}

OptionalArkitColumns ==
    {"cervico_mental_angle", "submental_cervical_length", "jaw_definition_index",
     "neck_circumference", "facial_adiposity_index", "face_width", "face_height",
     "head_pose_pitch", "head_pose_yaw", "head_pose_roll"}

OptionalLabelsColumns == {"true_angle"}

OptionalColumns ==
    OptionalMetadataColumns \cup OptionalArkitColumns \cup OptionalLabelsColumns

\* the categorical cells of a sample: mapped values, or unmapped and empty ones
CategoricalSamples ==
    { [gender |-> "female", ethnicity |-> "asian", context |-> "progress",
       true_category |-> "high"],
      [gender |-> NaN, ethnicity |-> "unlisted", context |-> NaN,
       true_category |-> NaN] }

\* the rows of image i in the three files, every cell filled
MetadataSample(i, cat) ==
    [image_id |-> i, age |-> Num(48 + i), gender |-> cat.gender, bmi |-> Num(27),
     ethnicity |-> cat.ethnicity, skin_tone |-> Num(4 + i), context |-> cat.context]

ArkitSample(i) ==
    [image_id |-> i, cervico_mental_angle |-> Num(110 + i),
     submental_cervical_length |-> Num(33), jaw_definition_index |-> Ratio(7, 10),
     neck_circumference |-> Num(400), facial_adiposity_index |-> Num(50),
     face_width |-> Num(150), face_height |-> Num(215),
     head_pose_pitch |-> Num(3), head_pose_yaw |-> Num(6), head_pose_roll |-> Num(9)]

LabelsSample(i, cat) ==
    [image_id |-> i, true_angle |-> Num(108 + i), true_category |-> cat.true_category]

\* the row of image i as a CSV file without the columns absent holds it, the
\* cells named in empty left empty
CsvRow(full, i, absent, empty) ==
    [c \in DOMAIN full \ absent |-> IF <<i, c>> \in empty THEN NaNFloat ELSE full[c]]

\* FacialAnalysisDataset has been built (lines 296-304) from files that hold
\* one row per image, lack some optional columns and have some empty cells;
\* a caller is about to index it
InitEncode ==
    /\ pc = "getitem"
    /\ PYTORCH_AVAILABLE = TRUE
    /\ COREML_AVAILABLE = TRUE
    /\ num_epochs = 0
    /\ \E absent \in SubsetsUpTo(OptionalColumns, MaxAbsentColumns),
          cat \in CategoricalSamples :
          \E empty \in SubsetsUpTo(ImageIds \X (OptionalColumns \ absent), MaxEmptyCells) :
              LET ids == Ascending(ImageIds)
                  m == [i \in 1..Len(ids) |-> CsvRow(MetadataSample(ids[i], cat), ids[i], absent, empty)]
                  a == [i \in 1..Len(ids) |-> CsvRow(ArkitSample(ids[i]), ids[i], absent, empty)]
                  l == [i \in 1..Len(ids) |-> CsvRow(LabelsSample(ids[i], cat), ids[i], absent, empty)]
              IN  /\ disk = Disk(CsvFile(m), CsvFile(a), CsvFile(l), "exists", NoStateDict)
                  /\ metadata_df = WithRangeIndex(m)
                  /\ arkit_df = WithRangeIndex(a)
                  /\ labels_df = WithRangeIndex(l)
                  /\ data = EncodeCategorical(MergedData(WithRangeIndex(m), WithRangeIndex(a),
                                                         WithRangeIndex(l)))
    /\ NothingComputed

InitTrain == SplitterEntered(MaxTrainRows, 0..MaxEpochs)

\* as InitTrain, with tables large enough for a training loader of two batches
InitBatches == SplitterEntered(MaxBatchRows, {MaxBatchEpochs})

-----------------------------------------------------------------------------
(* main(): lines 631-776 *)

Report(msg) == stdout' = stdout \cup {msg}

\* RequiredDependencies if the export library were required as PyTorch is
RequiredDependenciesBoth(pytorch, coreml) == pytorch /\ coreml

\* what main() needs to go on (line 644)
RequiredDependencies(pytorch, coreml) == pytorch

\* lines 643-650
CheckDependencies ==
    /\ pc = "check_deps"
    /\ IF ~RequiredDependencies(PYTORCH_AVAILABLE, COREML_AVAILABLE)
       THEN /\ Report("Error: PyTorch is required for training")
            /\ pc' = "exit"
       ELSE /\ IF ~COREML_AVAILABLE
               THEN Report("Warning: Core ML Tools not available")
               ELSE UNCHANGED stdout
            /\ pc' = "makedirs"
    /\ UNCHANGED <<item, PYTORCH_AVAILABLE, COREML_AVAILABLE, num_epochs, disk,
                   metadata_df, arkit_df, labels_df, data, train_indices, val_indices,
                   permutation42, trainer, history, model, raised>>

\* os.makedirs(args.output_dir, exist_ok=True), line 653
MakeOutputDir ==
    /\ pc = "makedirs"
    /\ disk' = [disk EXCEPT !.output_dir = IF @ = "absent" THEN "created" ELSE @]
    /\ pc' = "load_data"
    /\ UNCHANGED <<item, PYTORCH_AVAILABLE, COREML_AVAILABLE, num_epochs,
                   metadata_df, arkit_df, labels_df, data, train_indices, val_indices,
                   permutation42, trainer, history, model, stdout, raised>>

\* load_data raises FileNotFoundError (lines 421-426)
CsvMissing ==
    \/ ~disk.metadata_csv.exists
    \/ ~disk.arkit_features_csv.exists
    \/ ~disk.labels_csv.exists

\* lines 655-667, with load_data (lines 407-436)
LoadData ==
    /\ pc = "load_data"
    /\ IF CsvMissing
       THEN /\ Report("Error: CSV not found")
            /\ pc' = "exit"
            /\ UNCHANGED <<metadata_df, arkit_df, labels_df>>
       ELSE /\ metadata_df' = WithRangeIndex(disk.metadata_csv.rows)
            /\ arkit_df' = WithRangeIndex(disk.arkit_features_csv.rows)
            /\ labels_df' = WithRangeIndex(disk.labels_csv.rows)
            /\ pc' = "create_dataset"
            /\ UNCHANGED stdout
    /\ UNCHANGED <<item, PYTORCH_AVAILABLE, COREML_AVAILABLE, num_epochs, disk,
                   data, train_indices, val_indices,
                   permutation42, trainer, history, model, raised>>

\* FacialAnalysisDataset(...), lines 669-673 with lines 296-301
CreateDataset ==
    /\ pc = "create_dataset"
    /\ data' = MergedData(metadata_df, arkit_df, labels_df)
    /\ pc' = "split"
    /\ UNCHANGED <<item, PYTORCH_AVAILABLE, COREML_AVAILABLE, num_epochs, disk,
                   metadata_df, arkit_df, labels_df, train_indices, val_indices,
                   permutation42, trainer, history, model, stdout, raised>>

\* UnseededLengths is SeededLengths with random_state=None: every call of
\* train_test_split shuffles afresh
UnseededLengths(sizes, drawn) == sizes

\* the lengths whose permutation a call of train_test_split(random_state=42)
\* still has to fix: a new RandomState(42) shuffles a length as it did before
\* (line 227)
SeededLengths(sizes, drawn) == sizes \ DOMAIN drawn

\* lines 675-683: the splitter on the merged table.  RandomState(42) gives one
\* permutation per length; the model fixes it the first time a length is used
SplitData ==
    /\ pc = "split"
    /\ \E t \in PermutationTables(SeededLengths(SplitSizes(data), permutation42)) :
          LET perms == t @@ permutation42
              r     == stratified_train_test_split(data, perms)
          IN  /\ permutation42' = perms
              /\ IF r.ok
                 THEN /\ train_indices' = r.train
                      /\ val_indices' = r.val
                      /\ pc' = "create_loaders"
                      /\ UNCHANGED raised
                 ELSE /\ raised' = "ValueError"
                      /\ pc' = "raised"
                      /\ UNCHANGED <<train_indices, val_indices>>
    /\ UNCHANGED <<item, PYTORCH_AVAILABLE, COREML_AVAILABLE, num_epochs, disk,
                   metadata_df, arkit_df, labels_df, data,
                   trainer, history, model, stdout>>

\* stratified_train_test_split (lines 199-232) called once more on the same
\* merged table with the same demographics and test_size
SplitAgain ==
    /\ pc = "create_loaders"
    /\ \E t \in PermutationTables(SeededLengths(SplitSizes(data), permutation42)) :
          LET perms == t @@ permutation42
              r     == stratified_train_test_split(data, perms)
          IN  /\ permutation42' = perms
              /\ IF r.ok
                 THEN /\ train_indices' = r.train
                      /\ val_indices' = r.val
                      /\ pc' = "split_again"
                      /\ UNCHANGED raised
                 ELSE /\ raised' = "ValueError"
                      /\ pc' = "raised"
                      /\ UNCHANGED <<train_indices, val_indices>>
    /\ UNCHANGED <<item, PYTORCH_AVAILABLE, COREML_AVAILABLE, num_epochs, disk,
                   metadata_df, arkit_df, labels_df, data,
                   trainer, history, model, stdout>>

\* lines 685-725 up to the entry of train_model (lines 456-476): the two
\* subsets and their loaders, the model, the empty history.  Whether the shuffling
\* loader accepts an empty training subset depends on the installed torch: its
\* RandomSampler may raise ValueError
CreateLoaders ==
    /\ pc = "create_loaders"
    /\ \E sampler_rejects_empty \in BOOLEAN :
          IF Len(train_indices) = 0 /\ sampler_rejects_empty
          THEN /\ raised' = "ValueError"
               /\ pc' = "raised"
               /\ UNCHANGED <<trainer, history, model>>
          ELSE /\ model' = FreshModel
               /\ history' = EmptyHistory
               /\ trainer' = TrainerStart
               /\ pc' = "Epoch-Start"
               /\ UNCHANGED raised
    /\ UNCHANGED <<item, PYTORCH_AVAILABLE, COREML_AVAILABLE, num_epochs, disk,
                   metadata_df, arkit_df, labels_df, data, train_indices, val_indices,
                   permutation42, stdout>>

\* dataset[idx] for a position idx of the dataset (lines 341-404)
GetItem ==
    /\ pc = "getitem"
    /\ \E idx \in 0..(Len(data) - 1) : item' = GetItemOf(data, idx)
    /\ UNCHANGED <<pc, PYTORCH_AVAILABLE, COREML_AVAILABLE, num_epochs, disk,
                   metadata_df, arkit_df, labels_df, data, train_indices, val_indices,
                   permutation42, trainer, history, model, stdout, raised>>

-----------------------------------------------------------------------------
(* train_model: lines 443-572 *)

TrainerFrame ==
    UNCHANGED <<item, PYTORCH_AVAILABLE, COREML_AVAILABLE, num_epochs,
                metadata_df, arkit_df, labels_df, data, train_indices, val_indices,
                permutation42, stdout>>

\* lines 478-484: the next epoch begins
EpochStart ==
    /\ pc = "Epoch-Start"
    /\ trainer.epoch < num_epochs
    /\ trainer' = [trainer EXCEPT !.batch = 0, !.train_loss = F(0),
                                  !.train_angle_errors = << >>,
                                  !.train_category_correct = 0,
                                  !.train_category_total = 0]
    /\ pc' = "Train-Batch-Loop"
    /\ UNCHANGED <<disk, history, model, raised>>
    /\ TrainerFrame

\* the model after optimizer.step() (line 511)
OptimizerStep(m) == [m EXCEPT !.steps = @ + 1]

\* lines 486-519: one training batch
TrainBatch ==
    /\ pc = "Train-Batch-Loop"
    /\ trainer.batch < LoaderLen(train_indices)
    /\ \E out \in ForwardOutcomes :
          LET n == BatchRows(train_indices, trainer.batch)
          IN  trainer' = [trainer EXCEPT
                  !.batch = @ + 1,
                  !.train_loss = FAdd(@, out.loss),
                  !.train_angle_errors = @ \o [i \in 1..n |-> out.angle_err],
                  !.train_category_correct = @ + (IF out.hit THEN n ELSE 0),
                  !.train_category_total = @ + n]
    /\ model' = OptimizerStep(model)
    /\ UNCHANGED <<pc, disk, history, raised>>
    /\ TrainerFrame

\* lines 521-526: the training loader is exhausted, validation begins
BeginEval ==
    /\ pc = "Train-Batch-Loop"
    /\ trainer.batch = LoaderLen(train_indices)
    /\ trainer' = [trainer EXCEPT !.batch = 0, !.val_loss = F(0),
                                  !.val_angle_errors = << >>,
                                  !.val_category_correct = 0,
                                  !.val_category_total = 0]
    /\ pc' = "Eval-Batch-Loop"
    /\ UNCHANGED <<disk, history, model, raised>>
    /\ TrainerFrame

\* EvalStep if the validation loop stepped the optimizer as the training loop does
EvalStepUpdates(m) == [m EXCEPT !.steps = @ + 1]

\* the model after one validation batch under torch.no_grad() (lines 528-551)
EvalStep(m) == m

\* lines 528-551: one validation batch
EvalBatch ==
    /\ pc = "Eval-Batch-Loop"
    /\ trainer.batch < LoaderLen(val_indices)
    /\ \E out \in ForwardOutcomes :
          LET n == BatchRows(val_indices, trainer.batch)
          IN  trainer' = [trainer EXCEPT
                  !.batch = @ + 1,
                  !.val_loss = FAdd(@, out.loss),
                  !.val_angle_errors = @ \o [i \in 1..n |-> out.angle_err],
                  !.val_category_correct = @ + (IF out.hit THEN n ELSE 0),
                  !.val_category_total = @ + n]
    /\ model' = EvalStep(model)
    /\ UNCHANGED <<pc, disk, history, raised>>
    /\ TrainerFrame

\* the validation loader is exhausted
EndEval ==
    /\ pc = "Eval-Batch-Loop"
    /\ trainer.batch = LoaderLen(val_indices)
    /\ pc' = "Epoch-End"
    /\ UNCHANGED <<disk, trainer, history, model, raised>>
    /\ TrainerFrame

\* a quotient the history records: a sum over a count
Quotient(num, den) == [num |-> num, den |-> den]

\* RecordHistory storing the epoch's validation loss in place of the list
RecordHistoryOverwrite(h, t, n_train, n_val) ==
    [train_loss         |-> Append(h.train_loss, [num |-> t.train_loss, den |-> n_train]),
     val_loss           |-> << [num |-> t.val_loss, den |-> n_val] >>,
     train_angle_mae    |-> Append(h.train_angle_mae,
                                   [num |-> FSum(t.train_angle_errors), den |-> Len(t.train_angle_errors)]),
     val_angle_mae      |-> Append(h.val_angle_mae,
                                   [num |-> FSum(t.val_angle_errors), den |-> Len(t.val_angle_errors)]),
     train_category_acc |-> Append(h.train_category_acc,
                                   [num |-> F(t.train_category_correct), den |-> t.train_category_total]),
     val_category_acc   |-> Append(h.val_category_acc,
                                   [num |-> F(t.val_category_correct), den |-> t.val_category_total])]

\* lines 553-559 when no division fails: one record on each of the six lists
RecordHistory(h, t, n_train, n_val) ==
    [train_loss         |-> Append(h.train_loss, Quotient(t.train_loss, n_train)),
     val_loss           |-> Append(h.val_loss, Quotient(t.val_loss, n_val)),
     train_angle_mae    |-> Append(h.train_angle_mae,
                                   Quotient(FSum(t.train_angle_errors), Len(t.train_angle_errors))),
     val_angle_mae      |-> Append(h.val_angle_mae,
                                   Quotient(FSum(t.val_angle_errors), Len(t.val_angle_errors))),
     train_category_acc |-> Append(h.train_category_acc,
                                   Quotient(F(t.train_category_correct), t.train_category_total)),
     val_category_acc   |-> Append(h.val_category_acc,
                                   Quotient(F(t.val_category_correct), t.val_category_total))]

\* Improves as "not worse" (<=) would test it
ImprovesOrEqual(val_loss, best_val_loss) == ~FLess(best_val_loss, val_loss)

\* the test of line 567
Improves(val_loss, best_val_loss) == FLess(val_loss, best_val_loss)

\* torch.save(model.state_dict(), <cwd>/best_model.pth), lines 569-570
SavedStateDict(m) == [exists |-> TRUE, steps |-> m.steps, run |-> m.run]

\* lines 553-570: the end of an epoch.  A loader of no batches makes line 554
\* or line 555 divide by zero; line 554 has then already appended
EpochEnd ==
    /\ pc = "Epoch-End"
    /\ LET n_train == LoaderLen(train_indices)
           n_val   == LoaderLen(val_indices)
       IN  IF n_train = 0
           THEN /\ raised' = "ZeroDivisionError"
                /\ pc' = "raised"
                /\ UNCHANGED <<disk, trainer, history>>
           ELSE IF n_val = 0
           THEN /\ history' = [history EXCEPT !.train_loss =
                                   Append(@, Quotient(trainer.train_loss, n_train))]
                /\ raised' = "ZeroDivisionError"
                /\ pc' = "raised"
                /\ UNCHANGED <<disk, trainer>>
           ELSE /\ history' = RecordHistory(history, trainer, n_train, n_val)
                /\ IF Improves(trainer.val_loss, trainer.best_val_loss)
                   THEN /\ trainer' = [trainer EXCEPT !.best_val_loss = trainer.val_loss,
                                                      !.saved = Append(@, trainer.epoch + 1),
                                                      !.epoch = @ + 1]
                        /\ disk' = [disk EXCEPT !.best_model_pth = SavedStateDict(model)]
                   ELSE /\ trainer' = [trainer EXCEPT !.epoch = @ + 1]
                        /\ UNCHANGED disk
                /\ pc' = "Epoch-Start"
                /\ UNCHANGED raised
    /\ UNCHANGED model
    /\ TrainerFrame

\* line 572: the configured epochs are over, train_model returns the history
TrainReturn ==
    /\ pc = "Epoch-Start"
    /\ trainer.epoch = num_epochs
    /\ pc' = "Done"
    /\ UNCHANGED <<disk, trainer, history, model, raised>>
    /\ TrainerFrame

TrainModel ==
    \/ EpochStart
    \/ TrainBatch
    \/ BeginEval
    \/ EvalBatch
    \/ EndEval
    \/ EpochEnd
    \/ TrainReturn

-----------------------------------------------------------------------------
(* main() after train_model: lines 727-776 *)

MainFrame ==
    UNCHANGED <<item, PYTORCH_AVAILABLE, COREML_AVAILABLE, num_epochs,
                metadata_df, arkit_df, labels_df, data, train_indices, val_indices,
                permutation42, trainer, history, raised>>

\* lines 727-739
SaveHistory ==
    /\ pc = "Done"
    /\ disk' = [disk EXCEPT !.training_history_json = [exists |-> TRUE, content |-> history]]
    /\ pc' = "load_best"
    /\ UNCHANGED <<model, stdout>>
    /\ MainFrame

\* lines 741-747: whatever best_model.pth the working directory holds is loaded
LoadBestModel ==
    /\ pc = "load_best"
    /\ IF disk.best_model_pth.exists
       THEN /\ model' = [steps |-> disk.best_model_pth.steps, run |-> disk.best_model_pth.run]
            /\ UNCHANGED stdout
       ELSE /\ Report("Warning: Best model checkpoint not found")
            /\ UNCHANGED model
    /\ pc' = "convert"
    /\ UNCHANGED disk
    /\ MainFrame

\* lines 749-758, with convert_to_coreml (lines 575-624)
ConvertToCoreML ==
    /\ pc = "convert"
    /\ IF COREML_AVAILABLE
       THEN /\ disk' = [disk EXCEPT !.mlmodelc = SavedStateDict(model)]
            /\ UNCHANGED stdout
       ELSE /\ Report("Warning: Core ML Tools not available. Skipping conversion.")
            /\ UNCHANGED disk
    /\ pc' = "save_info"
    /\ UNCHANGED model
    /\ MainFrame

\* lines 760-776
SaveModelInfo ==
    /\ pc = "save_info"
    /\ disk' = [disk EXCEPT !.model_info_json = TRUE]
    /\ pc' = "exit"
    /\ UNCHANGED <<model, stdout>>
    /\ MainFrame

-----------------------------------------------------------------------------
(* Specifications *)

\* a whole run of main()
Next ==
    \/ CheckDependencies
    \/ MakeOutputDir
    \/ LoadData
    \/ CreateDataset
    \/ SplitData
    \/ CreateLoaders
    \/ TrainModel
    \/ SaveHistory
    \/ LoadBestModel
    \/ ConvertToCoreML
    \/ SaveModelInfo

Spec == Init /\ [][Next]_vars

\* the dataset merge on its own
NextMerge == CreateDataset

SpecMerge == InitMerge /\ [][NextMerge]_vars

\* the splitter on its own
NextSplit == SplitData

SpecSplit == InitSplit /\ [][NextSplit]_vars

\* the splitter called twice on one merged table
NextSplitTwice ==
    \/ SplitData
    \/ SplitAgain

SpecSplitTwice == InitSplit /\ [][NextSplitTwice]_vars

\* the feature encoder on a built dataset
NextEncode == GetItem

SpecEncode == InitEncode /\ [][NextEncode]_vars

\* the splitter, the loaders and train_model
NextTrain ==
    \/ SplitData
    \/ CreateLoaders
    \/ TrainModel

SpecTrain == InitTrain /\ [][NextTrain]_vars

\* the same steps over loaders of several batches
SpecBatches == InitBatches /\ [][NextTrain]_vars

-----------------------------------------------------------------------------
(* The claims *)

\* the index labels of the rows of df with the demographic key k
GroupMembers(df, k) == { df[i].index : i \in { j \in 1..Len(df) : KeyOf(df[j]) = k } }

\* the demographic groups of df: the (ethnicity, gender, skin_tone) values that
\* some row has, all three cells present
DemographicGroups(df) == { k \in { KeyOf(df[i]) : i \in 1..Len(df) } : ~HasNaN(k) }

AllIndex(df) == { df[i].index : i \in 1..Len(df) }

ImageIdsOf(df) == { df[i].image_id : i \in 1..Len(df) }

\* C1: once the splitter has returned, the train and the validation list are
\* disjoint and together hold the index of every row of the merged table,
\* each once, whatever the row's demographic cells.
C1_SplitIsPartitionOfAllRows ==
    pc = "create_loaders" =>
        /\ Range(train_indices) \cap Range(val_indices) = {}
        /\ Range(train_indices) \cup Range(val_indices) = AllIndex(data)
        /\ Len(train_indices) + Len(val_indices) = Len(data)

\* C2: after the splitter has run, every demographic group of at least two
\* merged rows has a row in the train list and a row in the validation list.
C2_GroupInBothPartitions ==
    pc # "split" =>
        \A k \in DemographicGroups(data) :
            Cardinality(GroupMembers(data, k)) >= 2 =>
                /\ GroupMembers(data, k) \cap Range(train_indices) # {}
                /\ GroupMembers(data, k) \cap Range(val_indices) # {}

\* C2's case: the splitter has split a group of two rows and a larger one
C2_Witness ==
    /\ pc = "create_loaders"
    /\ \E k1, k2 \in DemographicGroups(data) :
          /\ Cardinality(GroupMembers(data, k1)) = 2
          /\ Cardinality(GroupMembers(data, k2)) >= 3

C4_MergedIsCommonIdentifiers ==
    pc = "split" =>
        LET common == ImageIdsOf(metadata_df) \cap ImageIdsOf(arkit_df) \cap ImageIdsOf(labels_df)
        IN  /\ ImageIdsOf(data) = common
            /\ Len(data) = Cardinality(common)

\* C5: the merged table has at most as many rows as the smallest of the three
\* input tables, also when an image_id occurs in several rows of a table.
C5_MergedAtMostSmallestInput ==
    pc = "split" =>
        /\ Len(data) <= Len(metadata_df)
        /\ Len(data) <= Len(arkit_df)
        /\ Len(data) <= Len(labels_df)

\* the total validation loss of the completed epoch e (the sum line 555 divides)
ValTotal(e) == history.val_loss[e].num

\* C6: of the epochs completed so far, the ones at whose end the best
\* checkpoint was written are exactly those whose total validation loss is
\* finite and strictly less than that of every earlier epoch; an epoch writes
\* at most once, and the checkpoint file exists once an epoch has written.
C6_CheckpointIffStrictlyBetter ==
    /\ \A e \in 1..Len(history.val_loss) :
          (e \in Range(trainer.saved)) <=>
              /\ ~ValTotal(e).inf
              /\ \A p \in 1..(e - 1) : FLess(ValTotal(e), ValTotal(p))
    /\ Range(trainer.saved) \subseteq 1..Len(history.val_loss)
    /\ Len(trainer.saved) = Cardinality(Range(trainer.saved))
    /\ disk.best_model_pth.exists <=> trainer.saved # << >>

\* C6's case: losses 2, 2, 1 wrote at the epochs 1 and 3 and not at the equal one
C6_Witness ==
    /\ Len(history.val_loss) = 3
    /\ ValTotal(1) = F(2) /\ ValTotal(2) = F(2) /\ ValTotal(3) = F(1)
    /\ trainer.saved = <<1, 3>>

HistoryLists ==
    {"train_loss", "val_loss", "train_angle_mae", "val_angle_mae",
     "train_category_acc", "val_category_acc"}

IsPrefix(s, t) == Len(s) <= Len(t) /\ \A i \in 1..Len(s) : s[i] = t[i]

\* C7: while train_model runs, each of the six lists has one entry per
\* completed epoch, and num_epochs entries when it has returned; a step never
\* changes or removes an entry and adds at most one to a list.
C7_HistoryOneRecordPerEpoch ==
    /\ [](pc # "raised" =>
            \A f \in HistoryLists :
                /\ Len(history[f]) = trainer.epoch
                /\ pc = "Done" => Len(history[f]) = num_epochs)
    /\ [][\A f \in HistoryLists :
            /\ IsPrefix(history[f], history'[f])
            /\ Len(history'[f]) <= Len(history[f]) + 1]_vars

\* C7's case: train_model has returned after three epochs of differing losses
C7_Witness ==
    /\ pc = "Done"
    /\ num_epochs = 3
    /\ Len(history.val_loss) = 3
    /\ history.val_loss[1] # history.val_loss[2]
    /\ history.train_loss[2] # history.train_loss[3]

\* C8: whatever partition the splitter produced, the trainer never aborts in
\* Epoch-End.
C8_NoAbortInEpochEnd == raised # "ZeroDivisionError"

\* C9: when the run has stopped on a missing CSV file, it has created nothing
\* on disk: no output directory, no history, model-info, export or checkpoint
\* file.
C9_NothingCreatedOnMissingCsv ==
    (pc = "exit" /\ "Error: CSV not found" \in stdout) =>
        /\ disk.output_dir # "created"
        /\ ~disk.training_history_json.exists
        /\ ~disk.model_info_json
        /\ ~disk.mlmodelc.exists
        /\ disk.best_model_pth.run # "this"

\* C10: in a run without the export toolchain, no export artifact is ever
\* written and the missing toolchain is reported; the run ends early only for
\* missing PyTorch or a missing CSV file; and once training has returned and the
\* export step is over, the skip has been reported, all configured epochs have
\* run, training_history.json holds them, and at exit model_info.json is written.
C10_MissingToolchainOnlySkipsExport ==
    ~COREML_AVAILABLE =>
        /\ ~disk.mlmodelc.exists
        /\ (PYTORCH_AVAILABLE /\ pc # "check_deps") =>
               "Warning: Core ML Tools not available" \in stdout
        /\ (pc = "exit" /\ ~disk.model_info_json) => (~PYTORCH_AVAILABLE \/ CsvMissing)
        /\ (pc = "save_info" \/ (pc = "exit" /\ disk.model_info_json)) =>
               /\ "Warning: Core ML Tools not available. Skipping conversion." \in stdout
               /\ raised = "none"
               /\ trainer.epoch = num_epochs
               /\ disk.training_history_json.exists
               /\ \A f \in HistoryLists :
                      Len(disk.training_history_json.content[f]) = num_epochs

\* C10's case: a run without the toolchain has trained one epoch and exited
C10_Witness ==
    /\ ~COREML_AVAILABLE
    /\ pc = "exit"
    /\ num_epochs = 1
    /\ trainer.epoch = 1
    /\ disk.model_info_json
    /\ disk.training_history_json.exists
    /\ ~disk.mlmodelc.exists

\* C11: once main() has passed its "Load best model" step, the parameters the
\* model holds (the ones exported next) are this run's own: a checkpoint file
\* of an earlier run is never what was loaded, also when this run wrote none.
C11_LoadedCheckpointIsOwn ==
    (pc \in {"convert", "save_info"} \/ (pc = "exit" /\ disk.model_info_json)) =>
        model.run = "this"

DefaultOf ==
    [age |-> [v |-> Num(30), lo |-> 18, span |-> 62],
     bmi |-> [v |-> Num(22), lo |-> 15, span |-> 25],
     skin_tone |-> [v |-> Num(3), lo |-> 1, span |-> 5],
     cervico_mental_angle |-> [v |-> Num(100), lo |-> 70, span |-> 80],
     submental_cervical_length |-> [v |-> Num(40), lo |-> 15, span |-> 45],
     jaw_definition_index |-> [v |-> Ratio(65, 100), lo |-> 0, span |-> 0],
     neck_circumference |-> [v |-> Num(380), lo |-> 300, span |-> 200],
     facial_adiposity_index |-> [v |-> Num(35), lo |-> 0, span |-> 100],
     face_width |-> [v |-> Num(145), lo |-> 120, span |-> 60],
     face_height |-> [v |-> Num(210), lo |-> 180, span |-> 70],
     head_pose_pitch |-> [v |-> Num(0), lo |-> 0, span |-> 30],
     head_pose_yaw |-> [v |-> Num(0), lo |-> 0, span |-> 30],
     head_pose_roll |-> [v |-> Num(0), lo |-> 0, span |-> 30],
     true_angle |-> [v |-> Num(100), lo |-> 0, span |-> 0]]

\* what the encoder is to put in the vectors for a field that is missing
DefaultEntry(f) ==
    IF DefaultOf[f].span = 0 THEN DefaultOf[f].v
    ELSE Ratio(DefaultOf[f].v.num - DefaultOf[f].lo, DefaultOf[f].span)

\* the entry of an encoded sample that comes from the optional field f
EntryOf(it, f) ==
    CASE f = "age" -> it.metadata[1]
      [] f = "bmi" -> it.metadata[3]
      [] f = "skin_tone" -> it.metadata[5]
      [] f = "cervico_mental_angle" -> it.arkit_features[1]
      [] f = "submental_cervical_length" -> it.arkit_features[2]
      [] f = "jaw_definition_index" -> it.arkit_features[3]
      [] f = "neck_circumference" -> it.arkit_features[4]
      [] f = "facial_adiposity_index" -> it.arkit_features[5]
      [] f = "face_width" -> it.arkit_features[6]
      [] f = "face_height" -> it.arkit_features[7]
      [] f = "head_pose_pitch" -> it.arkit_features[8]
      [] f = "head_pose_yaw" -> it.arkit_features[9]
      [] f = "head_pose_roll" -> it.arkit_features[10]
      [] f = "true_angle" -> it.angle_target

\* the field f is missing for the row: no such column, or an empty cell
Missing(row, f) == f \notin DOMAIN row \/ row[f].nan

\* C13: the sample the encoder returns for a row has a 6-element metadata
\* vector and a 10-element measurement vector; the entry of every optional
\* field that is missing for the row (column absent, or cell empty) is the
\* field's default, normalized; and no entry is undefined (NaN).
C13_MissingFieldsAreDefaulted ==
    item # NoItem =>
        /\ Len(item.metadata) = 6
        /\ Len(item.arkit_features) = 10
        /\ \A f \in OptionalColumns :
               Missing(Iloc(data, item.idx), f) => EntryOf(item, f) = DefaultEntry(f)
        /\ \A i \in 1..6 : ~item.metadata[i].nan
        /\ \A i \in 1..10 : ~item.arkit_features[i].nan
        /\ ~item.angle_target.nan

\* C14: in every epoch the validation batches come after all training batches
\* (the model has taken one optimizer step per training batch so far when it
\* is in the training loop, and one per batch of the whole loader when it is
\* validating or at Epoch-End); the parameters change only by a training batch,
\* by exactly one step; and the checkpoint file changes only at Epoch-End, to
\* the parameters the validation of that epoch ran with.
C14_ParametersChangeOnlyInTraining ==
    /\ [](pc = "Train-Batch-Loop" =>
             model.steps = trainer.epoch * LoaderLen(train_indices) + trainer.batch)
    /\ [](pc \in {"Eval-Batch-Loop", "Epoch-End"} =>
             model.steps = (trainer.epoch + 1) * LoaderLen(train_indices))
    /\ [][/\ model' # model =>
                /\ pc = "Train-Batch-Loop" /\ pc' = "Train-Batch-Loop"
                /\ trainer'.batch = trainer.batch + 1
                /\ model'.steps = model.steps + 1
          /\ (pc = "Train-Batch-Loop" /\ pc' = pc) => model'.steps = model.steps + 1
          /\ disk'.best_model_pth # disk.best_model_pth =>
                /\ pc = "Epoch-End"
                /\ model' = model
                /\ disk'.best_model_pth.steps = model.steps
                /\ disk'.best_model_pth.steps = trainer'.epoch * LoaderLen(train_indices)]_vars

\* C14's case: an epoch of two training batches and a validation batch has
\* run and its end wrote the checkpoint
C14_Witness ==
    /\ pc = "Epoch-Start"
    /\ trainer.epoch = 1
    /\ trainer.saved = <<1>>
    /\ LoaderLen(train_indices) >= 2
    /\ LoaderLen(val_indices) >= 1
    /\ disk.best_model_pth.steps = LoaderLen(train_indices)

\* C15: the index labels of the merged table are 0..n-1 in row order, whatever
\* rows the join dropped; every index the splitter returned is a position of
\* the dataset, and the row at that position is the row the splitter took the
\* index from.
C15_MergedIndexIsDense ==
    /\ \A i \in 1..Len(data) : data[i].index = i - 1
    /\ \A idx \in Range(train_indices) \cup Range(val_indices) :
           /\ idx \in 0..(Len(data) - 1)
           /\ Iloc(data, idx).index = idx

\* C15's case: the join dropped the first metadata row, and the splitter has
\* returned the index of a row that was kept
C15_Witness ==
    /\ pc = "create_loaders"
    /\ Len(metadata_df) = 2
    /\ Len(data) = 1
    /\ metadata_df[1].image_id \notin ImageIdsOf(data)
    /\ train_indices = <<0>>

=============================================================================
